---- MODULE Spec2Model ----
(***************************************************************************)
(* bedpe_to_clusters.py: loops of a .bedpe table -> hic3defdr sparse       *)
(* clusters, one JSON document per chromosome.                             *)
(*                                                                         *)
(* Three specifications share the variables:                               *)
(*   SpecRow   one call of bedpe_row_to_cluster(bedpe_row, resolution)     *)
(*   SpecSave  one call of save_clusters(clusters, outfile)                *)
(*   Spec      the script (__main__): bedpe_to_clusters, then the save     *)
(*             loop over all_clusters.items()                              *)
(***************************************************************************)
EXTENDS Integers, Sequences, FiniteSets, TLC

VARIABLES
    pc,                 \* position of the running call / of the script
    raised,             \* the exception that ended the run, or "none"
    file,               \* lines of the input .bedpe file
    bedpe_df,           \* the table read_csv returned
    chroms,             \* keys the dict comprehension has still to visit
    all_clusters,       \* the dict being built: items in insertion order
    i,                  \* items of all_clusters the save loop has passed
    disk,               \* output files: name -> content
    opens,              \* names passed to open(outfile, "w"), in call order
    bedpe_row,          \* argument of bedpe_row_to_cluster
    matrix_resolution,  \* argument matrix_resolution
    cluster,            \* value bedpe_row_to_cluster returned
    clusters,           \* argument of save_clusters
    outfile             \* argument of save_clusters

vars == <<pc, raised, file, bedpe_df, chroms, all_clusters, i, disk, opens,
          bedpe_row, matrix_resolution, cluster, clusters, outfile>>

----------------------------------------------------------------------------
(* Bounds of the checked inputs *)

\* largest coordinate of a row given to bedpe_row_to_cluster, in Scale units
MaxCoord == 5
\* largest resolution, in Scale units
MaxRes == 3

\* matrix_resolution the script passes to bedpe_to_clusters
ScriptResolution == 10000

\* coordinates are drawn in base pairs and in units of the script's resolution
Scales == {1, ScriptResolution}

Coords(scale) == {scale * k : k \in (-1)..MaxCoord}

Resolutions(scale) == {scale * k : k \in 1..MaxRes}

None == "none"

----------------------------------------------------------------------------
(* bedpe_row_to_cluster *)

\* x / y of two integers: the float64 quotient, kept as the exact fraction.
\* Below 2^53 the rounded quotient has the floor and the ceiling of the
\* exact one, and TLC's integers end at 2^31.
TrueDiv(x, y) == <<x, y>>

\* np.floor(q).astype(int)
NpFloor(q) == q[1] \div q[2]

\* np.ceil(q).astype(int)
NpCeil(q) == 0 - ((0 - q[1]) \div q[2])

\* range(lo, hi)
Range(lo, hi) == lo..(hi - 1)

\* {(i, j) for i in range(row_min, row_max + 1) for j in range(col_min, col_max + 1)}
Pixels(row_min, row_max, col_min, col_max) ==
    {<<r, c>> : r \in Range(row_min, row_max + 1), c \in Range(col_min, col_max + 1)}

bedpe_row_to_cluster_floor_end(row, resolution) ==
    LET row_min == NpFloor(TrueDiv(row.start1, resolution))
        col_min == NpFloor(TrueDiv(row.start2, resolution))
        row_max == NpFloor(TrueDiv(row.end1, resolution))
        col_max == NpFloor(TrueDiv(row.end2, resolution))
    IN  Pixels(row_min, row_max, col_min, col_max)

bedpe_row_to_cluster_ceil_start(row, resolution) ==
    LET row_min == NpCeil(TrueDiv(row.start1, resolution))
        col_min == NpCeil(TrueDiv(row.start2, resolution))
        row_max == NpCeil(TrueDiv(row.end1, resolution)) - 1
        col_max == NpCeil(TrueDiv(row.end2, resolution)) - 1
    IN  Pixels(row_min, row_max, col_min, col_max)

bedpe_row_to_cluster(row, resolution) ==
    LET row_min == NpFloor(TrueDiv(row.start1, resolution))
        col_min == NpFloor(TrueDiv(row.start2, resolution))
        row_max == NpCeil(TrueDiv(row.end1, resolution)) - 1
        col_max == NpCeil(TrueDiv(row.end2, resolution)) - 1
    IN  Pixels(row_min, row_max, col_min, col_max)

Row(c1, s1, e1, c2, s2, e2) ==
    [chrom1 |-> c1, start1 |-> s1, end1 |-> e1,
     chrom2 |-> c2, start2 |-> s2, end2 |-> e2]

----------------------------------------------------------------------------
(* SpecRow: one call of bedpe_row_to_cluster *)

InitRow ==
    /\ pc = "row_call"
    /\ raised = None
    /\ \E scale \in Scales :
         /\ matrix_resolution \in Resolutions(scale)
         /\ bedpe_row \in {Row("chr1", s1, e1, "chr1", s2, e2) :
                             s1 \in Coords(scale), e1 \in Coords(scale),
                             s2 \in Coords(scale), e2 \in Coords(scale)}
    /\ cluster = {}
    /\ file = <<>>
    /\ bedpe_df = <<>>
    /\ chroms = {}
    /\ all_clusters = <<>>
    /\ i = 0
    /\ disk = <<>>
    /\ opens = <<>>
    /\ clusters = <<>>
    /\ outfile = None

RowToCluster ==
    /\ pc = "row_call"
    /\ cluster' = bedpe_row_to_cluster(bedpe_row, matrix_resolution)
    /\ pc' = "row_return"
    /\ UNCHANGED <<raised, file, bedpe_df, chroms, all_clusters, i, disk, opens,
                   bedpe_row, matrix_resolution, clusters, outfile>>

NextRow == RowToCluster

SpecRow == InitRow /\ [][NextRow]_vars

----------------------------------------------------------------------------
(* Claims about bedpe_row_to_cluster, checked under SpecRow *)

\* bin indices a row of the checked inputs can reach, with a margin
BinUniverse == (-3)..(MaxCoord + 2)

\* m = floor(x / res), by the inequalities that define the floor
IsFloor(m, x, res) == m * res <= x /\ x < (m + 1) * res

\* m = ceil(x / res), by the inequalities that define the ceiling
IsCeil(m, x, res) == (m - 1) * res < x /\ x <= m * res

Returned == pc = "row_return"

ScenarioRow == Row("chr1", 10000, 20000, "chr1", 30000, 50000)

ProperAnchors ==
    /\ bedpe_row.start1 >= 0 /\ bedpe_row.end1 > bedpe_row.start1
    /\ bedpe_row.start2 >= 0 /\ bedpe_row.end2 > bedpe_row.start2

\* bin k spans [k*res, (k+1)*res): it overlaps the half-open anchor [start, end)
Overlaps(k, start, end, res) == k * res < end /\ (k + 1) * res > start

----------------------------------------------------------------------------
(* save_clusters *)

\* most clusters in a list given to save_clusters
MaxClusters == 2
\* pixels (b, b + 1), b in 0..MaxBin, make the clusters given to save_clusters
MaxBin == 2

RECURSIVE Orderings(_)
\* the orders in which iterating a set can yield its elements
Orderings(S) ==
    IF S = {} THEN {<<>>}
    ELSE UNION {{<<x>> \o rest : rest \in Orderings(S \ {x})} : x \in S}

PixelToJson_swapped(p) == <<p[2], p[1]>>

\* [i, j] for i, j in c
PixelToJson(p) == <<p[1], p[2]>>

\* [[i, j] for i, j in c]
JsonArray(c) ==
    {[k \in 1..Len(o) |-> PixelToJson(o[k])] : o \in Orderings(c)}

RECURSIVE JsonDocs(_)
\* [[[i, j] for i, j in c] for c in clusters]
JsonDocs(cl) ==
    IF cl = <<>> THEN {<<>>}
    ELSE {<<a>> \o rest : a \in JsonArray(Head(cl)), rest \in JsonDocs(Tail(cl))}

NoFiles == [f \in {} |-> None]

\* the file system after name got content
Put(d, name, content) ==
    [f \in DOMAIN d \cup {name} |-> IF f = name THEN content ELSE d[f]]

\* a file json.dump wrote to the end
Document(doc) == [complete |-> TRUE, doc |-> doc]

\* a file open() created or emptied and json.dump did not finish
Truncated == [complete |-> FALSE, doc |-> <<>>]

\* save_clusters returns: the file holds the whole document
SaveReturns(cl, name, d) == {Put(d, name, Document(doc)) : doc \in JsonDocs(cl)}

\* save_clusters raises: open() failed, or a write of json.dump failed
SaveRaises(cl, name, d) == {d, Put(d, name, Truncated)}

----------------------------------------------------------------------------
(* SpecSave: one call of save_clusters *)

SavePixels == {<<b, b + 1>> : b \in 0..MaxBin}

\* what an earlier run left under the name
StaleDocument == Document(<<<<<<0, 0>>>>>>)

ClusterLists == UNION {[1..n -> SUBSET SavePixels] : n \in 0..MaxClusters}

InitSave ==
    /\ pc = "save_call"
    /\ raised = None
    /\ clusters \in ClusterLists
    /\ outfile = "chr1_clusters.json"
    /\ disk \in {NoFiles, Put(NoFiles, outfile, StaleDocument)}
    /\ opens = <<>>
    /\ file = <<>>
    /\ bedpe_df = <<>>
    /\ chroms = {}
    /\ all_clusters = <<>>
    /\ i = 0
    /\ bedpe_row = Row(None, 0, 0, None, 0, 0)
    /\ matrix_resolution = ScriptResolution
    /\ cluster = {}

SaveCallReturns ==
    /\ pc = "save_call"
    /\ opens' = Append(opens, outfile)
    /\ disk' \in SaveReturns(clusters, outfile, disk)
    /\ pc' = "save_return"
    /\ UNCHANGED <<raised, file, bedpe_df, chroms, all_clusters, i,
                   bedpe_row, matrix_resolution, cluster, clusters, outfile>>

SaveCallRaises ==
    /\ pc = "save_call"
    /\ opens' = Append(opens, outfile)
    /\ disk' \in SaveRaises(clusters, outfile, disk)
    /\ raised' = "IOError"
    /\ pc' = "raised"
    /\ UNCHANGED <<file, bedpe_df, chroms, all_clusters, i,
                   bedpe_row, matrix_resolution, cluster, clusters, outfile>>

NextSave == SaveCallReturns \/ SaveCallRaises

SpecSave == InitSave /\ [][NextSave]_vars

----------------------------------------------------------------------------
(* Claims about save_clusters, checked under SpecSave *)

Saved == pc = "save_return"

\* C6: the document save_clusters writes is an array with one element per
\* cluster, in the order of the list, and its k-th element holds exactly one
\* [row, col] for each pixel of the k-th cluster: none lost, none twice, none
\* added, row and col not swapped.
C6_DocumentMatchesClusters ==
    Saved =>
      /\ DOMAIN disk = {outfile}
      /\ disk[outfile].complete
      /\ LET doc == disk[outfile].doc
         IN  /\ Len(doc) = Len(clusters)
             /\ \A k \in 1..Len(clusters) :
                   /\ Len(doc[k]) = Cardinality(clusters[k])
                   /\ \A p \in clusters[k] :
                         Cardinality({n \in 1..Len(doc[k]) :
                                        /\ Len(doc[k][n]) = 2
                                        /\ doc[k][n][1] = p[1]
                                        /\ doc[k][n][2] = p[2]}) = 1

\* two different clusters, the second of several pixels
C6_Witness ==
    /\ Saved
    /\ Len(clusters) = 2
    /\ clusters[1] # clusters[2]
    /\ Cardinality(clusters[1]) = 1
    /\ Cardinality(clusters[2]) >= 2
    /\ Len(disk[outfile].doc[2]) >= 2

----------------------------------------------------------------------------
(* bedpe_to_clusters *)

\* most lines of the input file
MaxRows == 3
\* the loops of the input file start at bins 0..MaxAnchor, in half bins
MaxAnchor == 1

Chromosomes == {"chr1", "chr2"}

\* stands for any line that makes read_csv raise
Malformed == <<"malformed">>

HalfBin == ScriptResolution \div 2

\* a line of six tab-separated fields: two anchors, each a bin long, the
\* first starting a half bins into the chromosome
Line(c1, c2, a) ==
    <<c1, a * HalfBin, (a + 2) * HalfBin, c2, (a + 4) * HalfBin, (a + 5) * HalfBin>>

Lines == {Line(c1, c2, a) : c1 \in Chromosomes, c2 \in Chromosomes, a \in 0..MaxAnchor}
           \cup {Malformed}

Files == UNION {[1..n -> Lines] : n \in 0..MaxRows}

\* read_csv(sep="\t", usecols=range(6), names=[...]): the table, in file order
read_csv(f) == [n \in 1..Len(f) |-> Row(f[n][1], f[n][2], f[n][3], f[n][4], f[n][5], f[n][6])]

\* read_csv raises on a line it rejects, and may on a file without lines
ReadCsvCanRaise(f) == f = <<>> \/ \E n \in 1..Len(f) : f[n] = Malformed

ReadCsvCanReturn(f) == \A n \in 1..Len(f) : f[n] # Malformed

Unique_chrom1_chrom2(df) ==
    {df[n].chrom1 : n \in 1..Len(df)} \cup {df[n].chrom2 : n \in 1..Len(df)}

\* set(bedpe_df.chrom1.unique()).union(set(bedpe_df.chrom1.unique()))
UniqueChroms(df) ==
    {df[n].chrom1 : n \in 1..Len(df)} \cup {df[n].chrom1 : n \in 1..Len(df)}

OnChrom1(row, chrom) == row.chrom1 = chrom

\* chrom1 == @chrom and chrom2 == @chrom
IsCisOn(row, chrom) == row.chrom1 = chrom /\ row.chrom2 = chrom

Reversed(sq) == [k \in 1..Len(sq) |-> sq[Len(sq) + 1 - k]]

Query_reversed(df, chrom) == Reversed(SelectSeq(df, LAMBDA row : IsCisOn(row, chrom)))

\* bedpe_df.query("chrom1 == @chrom and chrom2 == @chrom").iterrows()
Query(df, chrom) == SelectSeq(df, LAMBDA row : IsCisOn(row, chrom))

\* [bedpe_row_to_cluster(row, matrix_resolution) for _, row in ...]
ClustersOn(df, resolution, chrom) ==
    LET rows == Query(df, chrom)
    IN  [k \in 1..Len(rows) |-> bedpe_row_to_cluster(rows[k], resolution)]

DictStep_accumulating(d, df, resolution, chrom) ==
    Append(d, [chrom |-> chrom,
               clusters |-> (IF d = <<>> THEN <<>> ELSE d[Len(d)].clusters)
                              \o ClustersOn(df, resolution, chrom)])

\* one step of the dict comprehension: the item of chrom is inserted
DictStep(d, df, resolution, chrom) ==
    Append(d, [chrom |-> chrom, clusters |-> ClustersOn(df, resolution, chrom)])

\* the keys of a dict
Keys(d) == {d[k].chrom : k \in 1..Len(d)}

\* f"{chrom}_clusters.json"
OutFile(chrom) == chrom \o "_clusters.json"

----------------------------------------------------------------------------
(* Spec: the script *)

Init ==
    /\ pc = "read_csv"
    /\ raised = None
    /\ file \in Files
    /\ matrix_resolution = ScriptResolution
    /\ bedpe_df = <<>>
    /\ chroms = {}
    /\ all_clusters = <<>>
    /\ i = 0
    /\ disk = NoFiles
    /\ opens = <<>>
    /\ bedpe_row = Row(None, 0, 0, None, 0, 0)
    /\ cluster = {}
    /\ clusters = <<>>
    /\ outfile = None

\* bedpe_to_clusters: the table is read and the set of keys taken from it
ReadCsv ==
    /\ pc = "read_csv"
    /\ ReadCsvCanReturn(file)
    /\ bedpe_df' = read_csv(file)
    /\ chroms' = UniqueChroms(bedpe_df')
    /\ pc' = "build"
    /\ UNCHANGED <<raised, file, all_clusters, i, disk, opens,
                   bedpe_row, matrix_resolution, cluster, clusters, outfile>>

\* bedpe_to_clusters: read_csv raises and the script ends
ReadCsvRaises ==
    /\ pc = "read_csv"
    /\ ReadCsvCanRaise(file)
    /\ raised' = "ParserError"
    /\ pc' = "raised"
    /\ UNCHANGED <<file, bedpe_df, chroms, all_clusters, i, disk, opens,
                   bedpe_row, matrix_resolution, cluster, clusters, outfile>>

\* bedpe_to_clusters: the comprehension visits the next key of the set, in
\* whatever order the set yields its elements
BuildChrom ==
    /\ pc = "build"
    /\ \E chrom \in chroms \ Keys(all_clusters) :
         all_clusters' = DictStep(all_clusters, bedpe_df, matrix_resolution, chrom)
    /\ UNCHANGED <<pc, raised, file, bedpe_df, chroms, i, disk, opens,
                   bedpe_row, matrix_resolution, cluster, clusters, outfile>>

\* bedpe_to_clusters returns the dict: the save loop begins
ReturnDict ==
    /\ pc = "build"
    /\ chroms \ Keys(all_clusters) = {}
    /\ pc' = "save"
    /\ UNCHANGED <<raised, file, bedpe_df, chroms, all_clusters, i, disk, opens,
                   bedpe_row, matrix_resolution, cluster, clusters, outfile>>

\* the save loop at the positions in pcs; the script's is at {"save"}
SaveChromAt(pcs) ==
    /\ pc \in pcs
    /\ i < Len(all_clusters)
    /\ LET item == all_clusters[i + 1]
       IN  /\ opens' = Append(opens, OutFile(item.chrom))
           /\ disk' \in SaveReturns(item.clusters, OutFile(item.chrom), disk)
    /\ i' = i + 1
    /\ UNCHANGED <<pc, raised, file, bedpe_df, chroms, all_clusters,
                   bedpe_row, matrix_resolution, cluster, clusters, outfile>>

SaveChrom_while_building == SaveChromAt({"build", "save"})

SaveChrom_skipping_empty ==
    /\ pc = "save"
    /\ i < Len(all_clusters)
    /\ LET item == all_clusters[i + 1]
       IN  IF item.clusters = <<>>
           THEN UNCHANGED <<opens, disk>>
           ELSE /\ opens' = Append(opens, OutFile(item.chrom))
                /\ disk' \in SaveReturns(item.clusters, OutFile(item.chrom), disk)
    /\ i' = i + 1
    /\ UNCHANGED <<pc, raised, file, bedpe_df, chroms, all_clusters,
                   bedpe_row, matrix_resolution, cluster, clusters, outfile>>

\* for chrom, clusters in all_clusters.items(): save_clusters(...) returns
SaveChrom == SaveChromAt({"save"})

SaveChromRaises_and_continues ==
    /\ pc = "save"
    /\ i < Len(all_clusters)
    /\ LET item == all_clusters[i + 1]
       IN  /\ opens' = Append(opens, OutFile(item.chrom))
           /\ disk' \in SaveRaises(item.clusters, OutFile(item.chrom), disk)
    /\ raised' = "IOError"
    /\ i' = i + 1
    /\ UNCHANGED <<pc, file, bedpe_df, chroms, all_clusters,
                   bedpe_row, matrix_resolution, cluster, clusters, outfile>>

\* save_clusters raises: nothing catches it and the script ends
SaveChromRaises ==
    /\ pc = "save"
    /\ i < Len(all_clusters)
    /\ LET item == all_clusters[i + 1]
       IN  /\ opens' = Append(opens, OutFile(item.chrom))
           /\ disk' \in SaveRaises(item.clusters, OutFile(item.chrom), disk)
    /\ raised' = "IOError"
    /\ pc' = "raised"
    /\ UNCHANGED <<file, bedpe_df, chroms, all_clusters, i,
                   bedpe_row, matrix_resolution, cluster, clusters, outfile>>

\* the loop is over and the script ends
Exit ==
    /\ pc = "save"
    /\ i = Len(all_clusters)
    /\ pc' = "done"
    /\ UNCHANGED <<raised, file, bedpe_df, chroms, all_clusters, i, disk, opens,
                   bedpe_row, matrix_resolution, cluster, clusters, outfile>>

Next ==
    \/ ReadCsv
    \/ ReadCsvRaises
    \/ BuildChrom
    \/ ReturnDict
    \/ SaveChrom
    \/ SaveChromRaises
    \/ Exit

Spec == Init /\ [][Next]_vars

----------------------------------------------------------------------------
(* Claims about bedpe_to_clusters and the script, checked under Spec *)

\* bedpe_to_clusters has returned its dict
DictReturned == pc \in {"save", "done"} \/ raised = "IOError"

\* the list stored under a key of the dict
ListOf(d, key) == d[CHOOSE k \in 1..Len(d) : d[k].chrom = key].clusters

\* the rows of the table that are cis loops on chrom, as row numbers
CisRowsOn(chrom) ==
    {n \in 1..Len(bedpe_df) : bedpe_df[n].chrom1 = chrom /\ bedpe_df[n].chrom2 = chrom}

CisRows == {n \in 1..Len(bedpe_df) : bedpe_df[n].chrom1 = bedpe_df[n].chrom2}

TransRows == {n \in 1..Len(bedpe_df) : bedpe_df[n].chrom1 # bedpe_df[n].chrom2}

RECURSIVE TotalClusters(_)
TotalClusters(d) ==
    IF d = <<>> THEN 0 ELSE Len(Head(d).clusters) + TotalClusters(Tail(d))

\* C3: a record with chrom1 # chrom2 contributes no cluster to any key: the
\* list under a key holds clusters only of records whose chrom1 and chrom2
\* both equal the key, and the clusters of all keys are as many as the cis
\* records.
C3_TransRecordsContributeNothing ==
    DictReturned =>
      /\ TotalClusters(all_clusters) = Cardinality(CisRows)
      /\ \A k \in 1..Len(all_clusters) :
            LET item == all_clusters[k]
            IN  /\ Len(item.clusters) = Cardinality(CisRowsOn(item.chrom))
                /\ \A c \in 1..Len(item.clusters) :
                      \E n \in CisRowsOn(item.chrom) :
                        item.clusters[c] =
                          bedpe_row_to_cluster(bedpe_df[n], matrix_resolution)

\* a trans record whose chrom1 also has a cis record
C3_Witness ==
    /\ DictReturned
    /\ \E t \in TransRows, n \in CisRows :
         /\ bedpe_df[t].chrom1 = bedpe_df[n].chrom1
         /\ t < n
         /\ Len(ListOf(all_clusters, bedpe_df[t].chrom1)) = 1

\* the k-th smallest member of a set of row numbers
Kth(S, k) == CHOOSE n \in S : Cardinality({m \in S : m < n}) = k - 1

\* C4: the list of a key has one cluster per retained (cis, same key)
\* record, and its k-th cluster is the cluster of the k-th such record in
\* file order.
C4_OneClusterPerCisRecordInFileOrder ==
    DictReturned =>
      \A key \in Keys(all_clusters) :
        LET list == ListOf(all_clusters, key)
            rows == CisRowsOn(key)
        IN  /\ Len(list) = Cardinality(rows)
            /\ \A k \in 1..Len(list) :
                  list[k] = bedpe_row_to_cluster(bedpe_df[Kth(rows, k)],
                                                 matrix_resolution)

\* two cis records of one chromosome with different clusters, a record that
\* is dropped between them
C4_Witness ==
    /\ DictReturned
    /\ \E key \in Keys(all_clusters) :
         LET list == ListOf(all_clusters, key)
         IN  /\ Len(list) = 2
             /\ list[1] # list[2]
             /\ Len(bedpe_df) = 3
             /\ CisRowsOn(key) = {1, 3}

Written == {f \in DOMAIN disk : disk[f].complete}

\* C7: no output document is written before the input is parsed to the end
\* and the clusters of all chromosomes are built; so a run that fails with a
\* ParseError has written no document.
C7_NoOutputBeforeAllClustersBuilt ==
    /\ (opens # <<>> \/ DOMAIN disk # {}) =>
         /\ DictReturned
         /\ bedpe_df = read_csv(file)
         /\ Keys(all_clusters) = chroms
         /\ \A key \in chroms :
              Len(ListOf(all_clusters, key)) = Cardinality(CisRowsOn(key))
    /\ raised = "ParserError" => (opens = <<>> /\ DOMAIN disk = {})

C7_Witness ==
    /\ pc = "save"
    /\ Len(all_clusters) = 2
    /\ i = 1
    /\ Cardinality(Written) = 1

C7_WitnessParseError ==
    /\ raised = "ParserError"
    /\ Len(file) = 3
    /\ file[1] # Malformed /\ file[2] # Malformed /\ file[3] = Malformed

\* C8: the first chromosome whose write fails with an IOError ends the
\* process: no chromosome after it is written, and the documents written
\* before it remain.
C8_FirstFailedWriteAbortsRun ==
    raised = "IOError" =>
      /\ pc = "raised"
      /\ i < Len(all_clusters)
      /\ Len(opens) = i + 1
      /\ \A k \in 1..Len(all_clusters) :
            LET name == OutFile(all_clusters[k].chrom)
            IN  /\ k <= i => /\ name \in Written
                             /\ disk[name].doc \in JsonDocs(all_clusters[k].clusters)
                /\ k = i + 1 => name \notin Written
                /\ k > i + 1 => name \notin DOMAIN disk

\* the first of two writes fails
C8_Witness ==
    /\ raised = "IOError"
    /\ Len(all_clusters) = 2
    /\ i = 0
    /\ OutFile(all_clusters[2].chrom) \notin DOMAIN disk

\* the second of two writes fails
C8_WitnessSecond ==
    /\ raised = "IOError"
    /\ Len(all_clusters) = 2
    /\ i = 1
    /\ OutFile(all_clusters[1].chrom) \in Written

\* C9: a run that ends without error has written exactly one document per
\* key of the dict, never two for a key, none for a name that is no key, and
\* an empty array for a key whose list is empty.
C9_OneDocumentPerKey ==
    pc = "done" =>
      /\ raised = None
      /\ DOMAIN disk = {OutFile(key) : key \in Keys(all_clusters)}
      /\ Written = DOMAIN disk
      /\ Len(opens) = Len(all_clusters)
      /\ \A key \in Keys(all_clusters) :
            /\ Cardinality({n \in 1..Len(opens) : opens[n] = OutFile(key)}) = 1
            /\ Len(disk[OutFile(key)].doc) = Len(ListOf(all_clusters, key))
            /\ ListOf(all_clusters, key) = <<>> => disk[OutFile(key)].doc = <<>>

\* two keys, one of them with an empty list
C9_Witness ==
    /\ pc = "done"
    /\ Keys(all_clusters) = {"chr1", "chr2"}
    /\ ListOf(all_clusters, "chr1") = <<>>
    /\ ListOf(all_clusters, "chr2") # <<>>
    /\ disk[OutFile("chr1")].doc = <<>>

RECURSIVE DictAlong(_, _, _)
\* the dict the comprehension builds when the key set yields its elements
\* in the given order
DictAlong(order, df, resolution) ==
    IF order = <<>> THEN <<>>
    ELSE DictStep(DictAlong(SubSeq(order, 1, Len(order) - 1), df, resolution),
                  df, resolution, order[Len(order)])

\* a dict as the set of its (key, list) pairs
Mapping(d) == {<<d[k].chrom, d[k].clusters>> : k \in 1..Len(d)}

\* C10: two runs of bedpe_to_clusters on the same records and resolution
\* give the same keys and, under every key, the same list of pixel sets,
\* whatever the order in which the key set is iterated.
C10_SameResultInAnyKeyOrder ==
    DictReturned =>
      \A order \in Orderings(UniqueChroms(bedpe_df)) :
        Mapping(DictAlong(order, bedpe_df, matrix_resolution)) = Mapping(all_clusters)

\* two keys with different lists, built chr2 first
C10_Witness ==
    /\ DictReturned
    /\ Len(all_clusters) = 2
    /\ all_clusters[1].chrom = "chr2"
    /\ all_clusters[1].clusters # <<>>
    /\ all_clusters[2].clusters # <<>>
    /\ all_clusters[1].clusters # all_clusters[2].clusters

====
